---------------------------- MODULE Spec2Model ----------------------------
(***************************************************************************)
(* A model of gmaps-keycheck.py: the orchestrator test_key_place and its   *)
(* fifteen endpoint probes, the fetch helpers, the retrying session built  *)
(* by make_session, and the key masking used by print_table.               *)
(***************************************************************************)
EXTENDS Integers, Sequences, FiniteSets, TLC

VARIABLES
    key,        \* the API key handed to test_key_place
    place,      \* the place query, as its whitespace-separated words
    i,          \* position of the for loop in SERVICES (1-based)
    pc,         \* "running", "done" (returned) or "crashed" (exception raised)
    exc,        \* name of the uncaught exception, "" when none
    results,    \* the results dict, as its entries in insertion order
    geo,        \* derived "lat,lng" string, None until geocode succeeds
    pid,        \* derived place identifier, None until geocode succeeds
    files,      \* names of the files present under out_root
    requests,   \* the logical requests handed to the session, in order
    visited,    \* the loop's iterations so far, by service name
    last,       \* the session's answer to the most recent request
    geocoded,   \* history: what fetch_json returned to the geocode branch
    \* one logical request through the session built by make_session
    rmethod,    \* "get" or "post"
    rtotal,     \* the Retry object's remaining total
    rhist,      \* the transport's answers to the attempts made so far
    rpc,        \* "idle", "sending", "returned" or "raised"
    rout,       \* what the session call produced for its caller
    \* the report header
    mkey,       \* the key given to mask_key, as its characters
    mplace,     \* the place given to print_table, as its characters
    masked,     \* mask_key's return value, None before the call
    header      \* the header line print_table wrote, None before the call

runvars == <<key, place, i, pc, exc, results, geo, pid, files, requests, visited, last, geocoded>>
retryvars == <<rmethod, rtotal, rhist, rpc, rout>>
maskvars == <<mkey, mplace, masked, header>>
vars == <<runvars, retryvars, maskvars>>

-----------------------------------------------------------------------------
(* Python values *)

\* Python's None, and a present value: an optional is a sequence of length <= 1.
None == <<>>
Some(v) == <<v>>

\* The empty dict {}.
EmptyDict == [k \in {} |-> k]

\* d.get(k, default)
Get(d, k, default) == IF k \in DOMAIN d THEN d[k] ELSE default

\* Truthiness of an optional string: None and "" are falsy.
Truthy(o) == o /= None /\ o[1] /= ""

\* " ".join(words): the place string as typed.
RECURSIVE Join(_)
Join(words) ==
    IF Len(words) = 0 THEN ""
    ELSE IF Len(words) = 1 THEN words[1]
    ELSE words[1] \o " " \o Join(Tail(words))

\* results[k] = v on an insertion-ordered dict: an existing key keeps its place.
DictSet(d, k, v) ==
    IF \E n \in 1..Len(d) : d[n].svc = k
    THEN [n \in 1..Len(d) |-> IF d[n].svc = k THEN [svc |-> k] @@ v ELSE d[n]]
    ELSE Append(d, [svc |-> k] @@ v)

Keys(d) == [n \in 1..Len(d) |-> d[n].svc]
HasKey(d, k) == \E n \in 1..Len(d) : d[n].svc = k
Entry(d, k) == d[CHOOSE n \in 1..Len(d) : d[n].svc = k]

-----------------------------------------------------------------------------
(* Constants of the program *)

\* (A variant with batchgeocode and staticmap exchanged.)
SERVICESReordered ==
    <<"geocode", "staticmap", "batchgeocode", "streetview", "photoreference",
      "placedetails", "textsearch", "distancematrix", "elevation", "timezone",
      "nearbysearch", "autocomplete", "snaptoroads", "nearestroads", "geolocate">>

SERVICES == <<"geocode", "batchgeocode", "staticmap", "streetview", "photoreference",
              "placedetails", "textsearch", "distancematrix", "elevation", "timezone",
              "nearbysearch", "autocomplete", "snaptoroads", "nearestroads", "geolocate">>

-----------------------------------------------------------------------------
(* What the session can do with one logical request: raise, or return a     *)
(* response with a status code, headers and a body that r.json() either     *)
(* parses (json = Some(value)) or rejects (json = None).                    *)

Raises == [raised |-> TRUE]
Response(status, js) == [raised |-> FALSE, status_code |-> status, json |-> Some(js)]
Unparseable(status) == [raised |-> FALSE, status_code |-> status, json |-> None]
ImageResponse(status, h) == [raised |-> FALSE, status_code |-> status, headers |-> h]

\* (A variant that keeps the status code when only r.json() fails.)
fetch_jsonKeepsStatus(out) ==
    IF out.raised THEN <<None, EmptyDict>>
    ELSE IF out.json = None THEN <<Some(out.status_code), EmptyDict>>
    ELSE <<Some(out.status_code), out.json[1]>>

\* fetch_json: (status_code, r.json()), or (None, {}) on any exception.
fetch_json(out) ==
    IF out.raised THEN <<None, EmptyDict>>
    ELSE IF out.json = None THEN <<None, EmptyDict>>
    ELSE <<Some(out.status_code), out.json[1]>>

\* fetch_image: (ok, status_code, headers); the file is written only on 200.
fetch_image(out) ==
    IF out.raised THEN <<FALSE, None, EmptyDict>>
    ELSE IF out.status_code = 200 THEN <<TRUE, Some(out.status_code), out.headers>>
    ELSE <<FALSE, Some(out.status_code), out.headers>>

\* (A variant that writes the body of any response, whatever its status.)
fetch_image_filesAnyStatus(out, dest) ==
    IF ~out.raised THEN files \cup {dest} ELSE files

\* The file-system effect of fetch_image on dest.
fetch_image_files(out, dest) ==
    IF ~out.raised /\ out.status_code = 200 THEN files \cup {dest} ELSE files


-----------------------------------------------------------------------------
(* The inputs of a run: the key, the place, and the stub server's answers.  *)

Keys_ == {"AIzaFAKEKEY1234567890"}
Places == {<<"1600", "Amphitheatre", "Parkway">>}

\* Two complete first results of a geocode response: one with a place_id, one
\* whose place_id is the empty string.
Location(lat, lng) == [location |-> [lat |-> lat, lng |-> lng]]
HitA == [formatted_address |-> "Paris, France", geometry |-> Location(48, 2),
         place_id |-> "ChIJD7fiBh9u5kcRYJSMaMOCCwQ"]
HitB == [formatted_address |-> "Mountain View, CA", geometry |-> Location(37, -122),
         place_id |-> ""]
Denied == [status |-> "REQUEST_DENIED", error_message |-> "The provided API key is invalid."]

GeocodeOutcomes ==
    { Raises, Unparseable(200), Response(403, Denied),
      Response(200, [status |-> "ZERO_RESULTS", results |-> <<>>]),
      Response(200, [status |-> "OK", results |-> <<HitA>>]),
      Response(200, [status |-> "OK", results |-> <<HitB>>]),
      \* status "OK" with an expected field missing
      Response(200, [status |-> "OK"]),
      Response(200, [status |-> "OK", results |-> <<>>]),
      Response(200, [status |-> "OK", results |-> << [geometry |-> Location(48, 2), place_id |-> "p"] >>]),
      Response(200, [status |-> "OK", results |-> << [formatted_address |-> "Paris, France"] >>]),
      Response(200, [status |-> "OK", results |-> << [formatted_address |-> "Paris, France",
                                                       geometry |-> [viewport |-> "v"]] >>]),
      Response(200, [status |-> "OK", results |-> << [formatted_address |-> "Paris, France",
                                                       geometry |-> [location |-> [lat |-> 48]]] >>]),
      Response(200, [status |-> "OK", results |-> << [formatted_address |-> "Paris, France",
                                                       geometry |-> Location(48, 2)] >>]) }

BatchOutcomes ==
    { Raises, Response(200, [status |-> "OK"]), Response(403, Denied) }

PngHeaders == [Content_Type |-> "image/png", Content_Length |-> <<"2", "0", "4", "8">>]
JpegHeaders ==
    [Content_Type |-> "image/jpeg",
     Content_Length |-> <<" ", "+", "5", "_", "1", "2", "0", "U+00A0">>]
ErrHeaders == [Content_Type |-> "text/html", Content_Length |-> <<"9", "9">>]

StaticmapOutcomes ==
    { Raises, ImageResponse(403, ErrHeaders), ImageResponse(200, PngHeaders),
      ImageResponse(200, [Content_Type |-> "image/png"]),
      ImageResponse(200, [Content_Type |-> "image/png", Content_Length |-> <<"-", "U+09EB">>]),
      ImageResponse(200, [Content_Type |-> "image/png", Content_Length |-> <<"c", "h", "u", "n", "k">>]),
      ImageResponse(200, [Content_Type |-> "image/png",
                          Content_Length |-> <<"U+001C", "2", "0", "4", "8">>]) }

StreetviewOutcomes ==
    { Raises, ImageResponse(403, ErrHeaders), ImageResponse(200, JpegHeaders),
      ImageResponse(200, [Content_Length |-> <<"1", "_", "_", "0">>]) }

PhotoOutcomes ==
    { Raises, Response(403, Denied),
      Response(200, [status |-> "ZERO_RESULTS", candidates |-> <<>>]),
      Response(200, [status |-> "OK", candidates |-> << [name |-> "n"] >>]),
      Response(200, [status |-> "OK", candidates |-> << [photos |-> << [photo_reference |-> "Aap_uE"] >>] >>]),
      Response(200, [status |-> "OK", candidates |-> << [photos |-> <<>>] >>]) }

DetailsOutcomes ==
    { Raises, Response(403, Denied),
      Response(200, [status |-> "NOT_FOUND"]),
      Response(200, [status |-> "OK", result |-> [name |-> "Paris"]]),
      Response(200, [status |-> "OK"]) }

SearchOutcomes ==
    { Raises, Response(403, Denied),
      Response(200, [status |-> "ZERO_RESULTS", results |-> <<>>]),
      Response(200, [status |-> "OK", results |-> << [name |-> "Le Cinq"] >>]) }

Element(el) == [status |-> "OK", rows |-> << [elements |-> <<el>>] >>]
MatrixOutcomes ==
    { Raises, Response(403, Denied),
      Response(200, [status |-> "OK", rows |-> <<>>]),
      Response(200, [status |-> "OK", rows |-> << [elements |-> <<>>] >>]),
      Response(200, Element([status |-> "ZERO_RESULTS"])),
      Response(200, Element([distance |-> [text |-> "1 m"], duration |-> [text |-> "1 min"]])),
      Response(200, Element([distance |-> [text |-> "1 m"]])),
      Response(200, Element([distance |-> [value |-> 0], duration |-> [text |-> "1 min"]])),
      Response(200, Element([distance |-> [text |-> "1 m"], duration |-> [value |-> 0]])) }

ElevationOutcomes ==
    { Raises, Response(403, Denied),
      Response(200, [status |-> "OK", results |-> <<>>]),
      Response(200, [status |-> "OK", results |-> << [elevation |-> 35] >>]) }

TimezoneOutcomes ==
    { Raises, Response(403, Denied),
      Response(200, [status |-> "ZERO_RESULTS"]),
      Response(200, [status |-> "OK", timeZoneId |-> ""]),
      Response(200, [status |-> "OK", timeZoneId |-> "Europe/Paris"]) }

AutocompleteOutcomes ==
    { Raises, Response(403, Denied),
      Response(200, [status |-> "ZERO_RESULTS", predictions |-> <<>>]),
      Response(200, [status |-> "OK", predictions |-> << [description |-> "Paris, France"] >>]) }

RoadsOutcomes ==
    { Raises, Response(403, [error |-> "PERMISSION_DENIED"]),
      Response(200, EmptyDict),
      Response(200, [snappedPoints |-> <<>>]),
      Response(200, [snappedPoints |-> << [placeId |-> "r1"], [placeId |-> "r2"] >>]) }

GeolocateOutcomes ==
    { Raises, Unparseable(502), Response(403, [error |-> "PERMISSION_DENIED"]),
      Response(400, [status |-> "INVALID_REQUEST"]),
      Response(200, [location |-> [lat |-> 51, lng |-> 0], accuracy |-> 1200]),
      Response(200, [location |-> [lat |-> 51]]) }

-----------------------------------------------------------------------------
(* String conversions used by the probes *)

Digits == <<"0", "1", "2", "3", "4", "5", "6", "7", "8", "9">>

\* The decimal digits outside ASCII that int() reads as well (the characters
\* of Unicode category Nd), by code point, one row of ten per script.
UnicodeDigits ==
    << <<"U+0660", "U+0661", "U+0662", "U+0663", "U+0664",
         "U+0665", "U+0666", "U+0667", "U+0668", "U+0669">>,
       <<"U+06F0", "U+06F1", "U+06F2", "U+06F3", "U+06F4",
         "U+06F5", "U+06F6", "U+06F7", "U+06F8", "U+06F9">>,
       <<"U+07C0", "U+07C1", "U+07C2", "U+07C3", "U+07C4",
         "U+07C5", "U+07C6", "U+07C7", "U+07C8", "U+07C9">>,
       <<"U+0966", "U+0967", "U+0968", "U+0969", "U+096A",
         "U+096B", "U+096C", "U+096D", "U+096E", "U+096F">>,
       <<"U+09E6", "U+09E7", "U+09E8", "U+09E9", "U+09EA",
         "U+09EB", "U+09EC", "U+09ED", "U+09EE", "U+09EF">>,
       <<"U+0A66", "U+0A67", "U+0A68", "U+0A69", "U+0A6A",
         "U+0A6B", "U+0A6C", "U+0A6D", "U+0A6E", "U+0A6F">>,
       <<"U+0AE6", "U+0AE7", "U+0AE8", "U+0AE9", "U+0AEA",
         "U+0AEB", "U+0AEC", "U+0AED", "U+0AEE", "U+0AEF">>,
       <<"U+0B66", "U+0B67", "U+0B68", "U+0B69", "U+0B6A",
         "U+0B6B", "U+0B6C", "U+0B6D", "U+0B6E", "U+0B6F">>,
       <<"U+0BE6", "U+0BE7", "U+0BE8", "U+0BE9", "U+0BEA",
         "U+0BEB", "U+0BEC", "U+0BED", "U+0BEE", "U+0BEF">>,
       <<"U+0C66", "U+0C67", "U+0C68", "U+0C69", "U+0C6A",
         "U+0C6B", "U+0C6C", "U+0C6D", "U+0C6E", "U+0C6F">>,
       <<"U+0CE6", "U+0CE7", "U+0CE8", "U+0CE9", "U+0CEA",
         "U+0CEB", "U+0CEC", "U+0CED", "U+0CEE", "U+0CEF">>,
       <<"U+0D66", "U+0D67", "U+0D68", "U+0D69", "U+0D6A",
         "U+0D6B", "U+0D6C", "U+0D6D", "U+0D6E", "U+0D6F">>,
       <<"U+0DE6", "U+0DE7", "U+0DE8", "U+0DE9", "U+0DEA",
         "U+0DEB", "U+0DEC", "U+0DED", "U+0DEE", "U+0DEF">>,
       <<"U+0E50", "U+0E51", "U+0E52", "U+0E53", "U+0E54",
         "U+0E55", "U+0E56", "U+0E57", "U+0E58", "U+0E59">>,
       <<"U+0ED0", "U+0ED1", "U+0ED2", "U+0ED3", "U+0ED4",
         "U+0ED5", "U+0ED6", "U+0ED7", "U+0ED8", "U+0ED9">>,
       <<"U+0F20", "U+0F21", "U+0F22", "U+0F23", "U+0F24",
         "U+0F25", "U+0F26", "U+0F27", "U+0F28", "U+0F29">>,
       <<"U+1040", "U+1041", "U+1042", "U+1043", "U+1044",
         "U+1045", "U+1046", "U+1047", "U+1048", "U+1049">>,
       <<"U+1090", "U+1091", "U+1092", "U+1093", "U+1094",
         "U+1095", "U+1096", "U+1097", "U+1098", "U+1099">>,
       <<"U+17E0", "U+17E1", "U+17E2", "U+17E3", "U+17E4",
         "U+17E5", "U+17E6", "U+17E7", "U+17E8", "U+17E9">>,
       <<"U+1810", "U+1811", "U+1812", "U+1813", "U+1814",
         "U+1815", "U+1816", "U+1817", "U+1818", "U+1819">>,
       <<"U+1946", "U+1947", "U+1948", "U+1949", "U+194A",
         "U+194B", "U+194C", "U+194D", "U+194E", "U+194F">>,
       <<"U+19D0", "U+19D1", "U+19D2", "U+19D3", "U+19D4",
         "U+19D5", "U+19D6", "U+19D7", "U+19D8", "U+19D9">>,
       <<"U+1A80", "U+1A81", "U+1A82", "U+1A83", "U+1A84",
         "U+1A85", "U+1A86", "U+1A87", "U+1A88", "U+1A89">>,
       <<"U+1A90", "U+1A91", "U+1A92", "U+1A93", "U+1A94",
         "U+1A95", "U+1A96", "U+1A97", "U+1A98", "U+1A99">>,
       <<"U+1B50", "U+1B51", "U+1B52", "U+1B53", "U+1B54",
         "U+1B55", "U+1B56", "U+1B57", "U+1B58", "U+1B59">>,
       <<"U+1BB0", "U+1BB1", "U+1BB2", "U+1BB3", "U+1BB4",
         "U+1BB5", "U+1BB6", "U+1BB7", "U+1BB8", "U+1BB9">>,
       <<"U+1C40", "U+1C41", "U+1C42", "U+1C43", "U+1C44",
         "U+1C45", "U+1C46", "U+1C47", "U+1C48", "U+1C49">>,
       <<"U+1C50", "U+1C51", "U+1C52", "U+1C53", "U+1C54",
         "U+1C55", "U+1C56", "U+1C57", "U+1C58", "U+1C59">>,
       <<"U+A620", "U+A621", "U+A622", "U+A623", "U+A624",
         "U+A625", "U+A626", "U+A627", "U+A628", "U+A629">>,
       <<"U+A8D0", "U+A8D1", "U+A8D2", "U+A8D3", "U+A8D4",
         "U+A8D5", "U+A8D6", "U+A8D7", "U+A8D8", "U+A8D9">>,
       <<"U+A900", "U+A901", "U+A902", "U+A903", "U+A904",
         "U+A905", "U+A906", "U+A907", "U+A908", "U+A909">>,
       <<"U+A9D0", "U+A9D1", "U+A9D2", "U+A9D3", "U+A9D4",
         "U+A9D5", "U+A9D6", "U+A9D7", "U+A9D8", "U+A9D9">>,
       <<"U+A9F0", "U+A9F1", "U+A9F2", "U+A9F3", "U+A9F4",
         "U+A9F5", "U+A9F6", "U+A9F7", "U+A9F8", "U+A9F9">>,
       <<"U+AA50", "U+AA51", "U+AA52", "U+AA53", "U+AA54",
         "U+AA55", "U+AA56", "U+AA57", "U+AA58", "U+AA59">>,
       <<"U+ABF0", "U+ABF1", "U+ABF2", "U+ABF3", "U+ABF4",
         "U+ABF5", "U+ABF6", "U+ABF7", "U+ABF8", "U+ABF9">>,
       <<"U+FF10", "U+FF11", "U+FF12", "U+FF13", "U+FF14",
         "U+FF15", "U+FF16", "U+FF17", "U+FF18", "U+FF19">>,
       <<"U+104A0", "U+104A1", "U+104A2", "U+104A3", "U+104A4",
         "U+104A5", "U+104A6", "U+104A7", "U+104A8", "U+104A9">>,
       <<"U+10D30", "U+10D31", "U+10D32", "U+10D33", "U+10D34",
         "U+10D35", "U+10D36", "U+10D37", "U+10D38", "U+10D39">>,
       <<"U+11066", "U+11067", "U+11068", "U+11069", "U+1106A",
         "U+1106B", "U+1106C", "U+1106D", "U+1106E", "U+1106F">>,
       <<"U+110F0", "U+110F1", "U+110F2", "U+110F3", "U+110F4",
         "U+110F5", "U+110F6", "U+110F7", "U+110F8", "U+110F9">>,
       <<"U+11136", "U+11137", "U+11138", "U+11139", "U+1113A",
         "U+1113B", "U+1113C", "U+1113D", "U+1113E", "U+1113F">>,
       <<"U+111D0", "U+111D1", "U+111D2", "U+111D3", "U+111D4",
         "U+111D5", "U+111D6", "U+111D7", "U+111D8", "U+111D9">>,
       <<"U+112F0", "U+112F1", "U+112F2", "U+112F3", "U+112F4",
         "U+112F5", "U+112F6", "U+112F7", "U+112F8", "U+112F9">>,
       <<"U+11450", "U+11451", "U+11452", "U+11453", "U+11454",
         "U+11455", "U+11456", "U+11457", "U+11458", "U+11459">>,
       <<"U+114D0", "U+114D1", "U+114D2", "U+114D3", "U+114D4",
         "U+114D5", "U+114D6", "U+114D7", "U+114D8", "U+114D9">>,
       <<"U+11650", "U+11651", "U+11652", "U+11653", "U+11654",
         "U+11655", "U+11656", "U+11657", "U+11658", "U+11659">>,
       <<"U+116C0", "U+116C1", "U+116C2", "U+116C3", "U+116C4",
         "U+116C5", "U+116C6", "U+116C7", "U+116C8", "U+116C9">>,
       <<"U+11730", "U+11731", "U+11732", "U+11733", "U+11734",
         "U+11735", "U+11736", "U+11737", "U+11738", "U+11739">>,
       <<"U+118E0", "U+118E1", "U+118E2", "U+118E3", "U+118E4",
         "U+118E5", "U+118E6", "U+118E7", "U+118E8", "U+118E9">>,
       <<"U+11950", "U+11951", "U+11952", "U+11953", "U+11954",
         "U+11955", "U+11956", "U+11957", "U+11958", "U+11959">>,
       <<"U+11C50", "U+11C51", "U+11C52", "U+11C53", "U+11C54",
         "U+11C55", "U+11C56", "U+11C57", "U+11C58", "U+11C59">>,
       <<"U+11D50", "U+11D51", "U+11D52", "U+11D53", "U+11D54",
         "U+11D55", "U+11D56", "U+11D57", "U+11D58", "U+11D59">>,
       <<"U+11DA0", "U+11DA1", "U+11DA2", "U+11DA3", "U+11DA4",
         "U+11DA5", "U+11DA6", "U+11DA7", "U+11DA8", "U+11DA9">>,
       <<"U+11F50", "U+11F51", "U+11F52", "U+11F53", "U+11F54",
         "U+11F55", "U+11F56", "U+11F57", "U+11F58", "U+11F59">>,
       <<"U+16A60", "U+16A61", "U+16A62", "U+16A63", "U+16A64",
         "U+16A65", "U+16A66", "U+16A67", "U+16A68", "U+16A69">>,
       <<"U+16AC0", "U+16AC1", "U+16AC2", "U+16AC3", "U+16AC4",
         "U+16AC5", "U+16AC6", "U+16AC7", "U+16AC8", "U+16AC9">>,
       <<"U+16B50", "U+16B51", "U+16B52", "U+16B53", "U+16B54",
         "U+16B55", "U+16B56", "U+16B57", "U+16B58", "U+16B59">>,
       <<"U+1D7CE", "U+1D7CF", "U+1D7D0", "U+1D7D1", "U+1D7D2",
         "U+1D7D3", "U+1D7D4", "U+1D7D5", "U+1D7D6", "U+1D7D7">>,
       <<"U+1D7D8", "U+1D7D9", "U+1D7DA", "U+1D7DB", "U+1D7DC",
         "U+1D7DD", "U+1D7DE", "U+1D7DF", "U+1D7E0", "U+1D7E1">>,
       <<"U+1D7E2", "U+1D7E3", "U+1D7E4", "U+1D7E5", "U+1D7E6",
         "U+1D7E7", "U+1D7E8", "U+1D7E9", "U+1D7EA", "U+1D7EB">>,
       <<"U+1D7EC", "U+1D7ED", "U+1D7EE", "U+1D7EF", "U+1D7F0",
         "U+1D7F1", "U+1D7F2", "U+1D7F3", "U+1D7F4", "U+1D7F5">>,
       <<"U+1D7F6", "U+1D7F7", "U+1D7F8", "U+1D7F9", "U+1D7FA",
         "U+1D7FB", "U+1D7FC", "U+1D7FD", "U+1D7FE", "U+1D7FF">>,
       <<"U+1E140", "U+1E141", "U+1E142", "U+1E143", "U+1E144",
         "U+1E145", "U+1E146", "U+1E147", "U+1E148", "U+1E149">>,
       <<"U+1E2F0", "U+1E2F1", "U+1E2F2", "U+1E2F3", "U+1E2F4",
         "U+1E2F5", "U+1E2F6", "U+1E2F7", "U+1E2F8", "U+1E2F9">>,
       <<"U+1E4F0", "U+1E4F1", "U+1E4F2", "U+1E4F3", "U+1E4F4",
         "U+1E4F5", "U+1E4F6", "U+1E4F7", "U+1E4F8", "U+1E4F9">>,
       <<"U+1E950", "U+1E951", "U+1E952", "U+1E953", "U+1E954",
         "U+1E955", "U+1E956", "U+1E957", "U+1E958", "U+1E959">>,
       <<"U+1FBF0", "U+1FBF1", "U+1FBF2", "U+1FBF3", "U+1FBF4",
         "U+1FBF5", "U+1FBF6", "U+1FBF7", "U+1FBF8", "U+1FBF9">> >>
DigitRows == <<Digits>> \o UnicodeDigits
IsDigit(c) == \E r \in 1..Len(DigitRows) : \E d \in 1..10 : DigitRows[r][d] = c
DigitValue(c) ==
    (CHOOSE d \in 1..10 : \E r \in 1..Len(DigitRows) : DigitRows[r][d] = c) - 1

\* The characters int() drops from both ends of the string: the ASCII blanks
\* (space, TAB, LF, VT, FF, CR) and, by code point, NEL, NO-BREAK SPACE, OGHAM
\* SPACE MARK, EN QUAD to HAIR SPACE, the line and paragraph separators,
\* NARROW NO-BREAK SPACE, MEDIUM MATHEMATICAL SPACE and IDEOGRAPHIC SPACE.
\* The separators U+001C to U+001F are not dropped.
Whitespace ==
    { " ", "\t", "\n", "\r", "\f", "U+000B",
      "U+0085", "U+00A0", "U+1680", "U+2000", "U+2001", "U+2002", "U+2003", "U+2004",
      "U+2005", "U+2006", "U+2007", "U+2008", "U+2009", "U+200A", "U+2028", "U+2029",
      "U+202F", "U+205F", "U+3000" }

RECURSIVE lstrip(_)
lstrip(cs) == IF cs /= <<>> /\ Head(cs) \in Whitespace THEN lstrip(Tail(cs)) ELSE cs
RECURSIVE rstrip(_)
rstrip(cs) ==
    IF cs /= <<>> /\ cs[Len(cs)] \in Whitespace THEN rstrip(SubSeq(cs, 1, Len(cs) - 1)) ELSE cs
strip(cs) == rstrip(lstrip(cs))

RECURSIVE DecimalValue(_, _)
DecimalValue(cs, acc) ==
    IF cs = <<>> THEN acc ELSE DecimalValue(Tail(cs), 10 * acc + DigitValue(Head(cs)))

\* int(s) for a header value given as its characters, in base 10: whitespace
\* around the number is dropped, one sign may lead, and the digits may be
\* grouped by single underscores; None where Python raises ValueError.
int(cs) ==
    LET s == strip(cs)
        signed == s /= <<>> /\ s[1] \in {"+", "-"}
        body == IF signed THEN Tail(s) ELSE s
        wellformed ==
            /\ body /= <<>>
            /\ IsDigit(body[1])
            /\ IsDigit(body[Len(body)])
            /\ \A n \in 1..Len(body) :
                  \/ IsDigit(body[n])
                  \/ body[n] = "_" /\ IsDigit(body[n - 1]) /\ IsDigit(body[n + 1])
        magnitude == DecimalValue(SelectSeq(body, IsDigit), 0)
    IN  IF ~wellformed THEN None
        ELSE IF signed /\ s[1] = "-" THEN Some(0 - magnitude) ELSE Some(magnitude)

\* (A variant with the two coordinates exchanged.)
LatLngSwapped(loc) == ToString(loc.lng) \o "," \o ToString(loc.lat)

\* f"{loc['lat']},{loc['lng']}"
LatLng(loc) == ToString(loc.lat) \o "," \o ToString(loc.lng)

-----------------------------------------------------------------------------
(* test_key_place: one action per branch of the loop body *)

\* The loop takes the next service.
Advance == i' = i + 1 /\ pc' = "running" /\ exc' = ""

\* An exception leaves the loop body and test_key_place.
Raise(e) == i' = i /\ pc' = "crashed" /\ exc' = e

\* The iteration of the loop whose svc is s.
Visit(s) ==
    /\ pc = "running"
    /\ i <= Len(SERVICES)
    /\ SERVICES[i] = s
    /\ visited' = Append(visited, s)
    /\ UNCHANGED <<retryvars, maskvars>>

\* One logical request handed to the session, and what came back.
Send(s, method, url, kw, out) ==
    /\ requests' = Append(requests, [svc |-> s, method |-> method, url |-> url, kw |-> kw])
    /\ last' = [svc |-> s, out |-> out]

\* A branch whose condition is false: no branch of the chain runs.
Skip == Advance /\ UNCHANGED <<results, geo, pid, files, requests, last>>

Row(code, info, raw) == [http |-> code, info |-> info, raw |-> raw]

geocode ==
    /\ Visit("geocode")
    /\ \E out \in GeocodeOutcomes :
        LET r == fetch_json(out)
            code == r[1]
            js == r[2]
            hit == js.results[1]
        IN  /\ Send("geocode", "get", "https://maps.googleapis.com/maps/api/geocode/json",
                    [params |-> [address |-> Join(place), key |-> key]], out)
            /\ geocoded' = Some(r)
            /\ IF ~("status" \in DOMAIN js /\ js.status = "OK")
               THEN Advance /\ UNCHANGED <<results, geo, pid>>
               ELSE IF "results" \notin DOMAIN js
               THEN Raise("KeyError") /\ UNCHANGED <<results, geo, pid>>
               ELSE IF Len(js.results) = 0
               THEN Raise("IndexError") /\ UNCHANGED <<results, geo, pid>>
               ELSE IF "formatted_address" \notin DOMAIN hit
               THEN Raise("KeyError") /\ UNCHANGED <<results, geo, pid>>
               ELSE /\ results' = DictSet(results, "geocode", Row(code, hit.formatted_address, js))
                    /\ IF \/ "geometry" \notin DOMAIN hit
                          \/ "location" \notin DOMAIN hit.geometry
                          \/ "lat" \notin DOMAIN hit.geometry.location
                          \/ "lng" \notin DOMAIN hit.geometry.location
                       THEN Raise("KeyError") /\ UNCHANGED <<geo, pid>>
                       ELSE /\ geo' = Some(LatLng(hit.geometry.location))
                            /\ IF "place_id" \notin DOMAIN hit
                               THEN Raise("KeyError") /\ UNCHANGED pid
                               ELSE Advance /\ pid' = Some(hit.place_id)
    /\ UNCHANGED <<key, place, files>>

batchgeocode ==
    /\ Visit("batchgeocode")
    /\ \E out \in BatchOutcomes :
        LET r == fetch_json(out)
            code == r[1]
            js == r[2]
            info == IF code = Some(200) THEN "" ELSE Get(js, "status", "")
        IN  /\ files' = files \cup {"batch.csv"}
            /\ Send("batchgeocode", "post", "https://maps.googleapis.com/maps/api/geocode/batch/json",
                    [files |-> [file |-> "batch.csv"], params |-> [key |-> key]], out)
            /\ results' = DictSet(results, "batchgeocode", Row(code, info, js))
            /\ Advance
    /\ UNCHANGED <<key, place, geo, pid, geocoded>>

\* The shared body of the two binary probes.
ImageProbe(s, url, params, dest, out) ==
    LET r == fetch_image(out)
        ok == r[1]
        c == r[2]
        h == r[3]
        len == IF "Content_Length" \in DOMAIN h THEN int(h.Content_Length) ELSE Some(0)
    IN  /\ Send(s, "get", url, [params |-> params], out)
        /\ files' = fetch_image_files(out, dest)
        /\ IF ~ok THEN Advance /\ UNCHANGED results
           ELSE IF len = None THEN Raise("ValueError") /\ UNCHANGED results
           ELSE /\ results' = DictSet(results, s,
                        Row(c, Get(h, "Content_Type", "") \o ", " \o ToString(len[1] \div 1024) \o "KB", h))
                /\ Advance

staticmap ==
    /\ Visit("staticmap")
    /\ IF Truthy(geo)
       THEN \E out \in StaticmapOutcomes :
                ImageProbe("staticmap", "https://maps.googleapis.com/maps/api/staticmap",
                           [center |-> geo[1], zoom |-> 7, size |-> "400x400", key |-> key],
                           "staticmap.png", out)
       ELSE Skip
    /\ UNCHANGED <<key, place, geo, pid, geocoded>>

streetview ==
    /\ Visit("streetview")
    /\ IF Truthy(geo)
       THEN \E out \in StreetviewOutcomes :
                ImageProbe("streetview", "https://maps.googleapis.com/maps/api/streetview",
                           [location |-> geo[1], size |-> "400x400", key |-> key],
                           "streetview.jpg", out)
       ELSE Skip
    /\ UNCHANGED <<key, place, geo, pid, geocoded>>

photoreference ==
    /\ Visit("photoreference")
    /\ IF Truthy(pid)
       THEN \E out \in PhotoOutcomes :
            LET r == fetch_json(out)
                code == r[1]
                js == r[2]
                cands == Get(js, "candidates", <<>>)
            IN  /\ Send("photoreference", "get",
                        "https://maps.googleapis.com/maps/api/place/findplacefromtext/json",
                        [params |-> [input |-> Join(place), inputtype |-> "textquery",
                                     fields |-> "photos", key |-> key]], out)
                /\ IF cands /= <<>> /\ "photos" \in DOMAIN cands[1]
                   THEN IF cands[1].photos = <<>>
                        THEN Raise("IndexError") /\ UNCHANGED results
                        ELSE /\ results' = DictSet(results, "photoreference",
                                    Row(code, Get(cands[1].photos[1], "photo_reference", ""), js))
                             /\ Advance
                   ELSE Advance /\ UNCHANGED results
                /\ UNCHANGED files
       ELSE Skip
    /\ UNCHANGED <<key, place, geo, pid, geocoded>>

placedetails ==
    /\ Visit("placedetails")
    /\ IF Truthy(pid)
       THEN \E out \in DetailsOutcomes :
            LET r == fetch_json(out)
                code == r[1]
                js == r[2]
            IN  /\ Send("placedetails", "get",
                        "https://maps.googleapis.com/maps/api/place/details/json",
                        [params |-> [place_id |-> pid[1], key |-> key]], out)
                /\ IF "status" \in DOMAIN js /\ js.status = "OK"
                   THEN IF "result" \notin DOMAIN js
                        THEN Raise("KeyError") /\ UNCHANGED results
                        ELSE /\ results' = DictSet(results, "placedetails",
                                    Row(code, Get(js.result, "name", ""), js))
                             /\ Advance
                   ELSE Advance /\ UNCHANGED results
                /\ UNCHANGED files
       ELSE Skip
    /\ UNCHANGED <<key, place, geo, pid, geocoded>>

\* The shared body of textsearch and nearbysearch: the first result's name.
FirstName(s, url, params, out) ==
    LET r == fetch_json(out)
        code == r[1]
        js == r[2]
    IN  /\ Send(s, "get", url, [params |-> params], out)
        /\ IF Get(js, "results", <<>>) /= <<>>
           THEN results' = DictSet(results, s, Row(code, Get(js.results[1], "name", ""), js))
           ELSE UNCHANGED results
        /\ Advance
        /\ UNCHANGED files

textsearch ==
    /\ Visit("textsearch")
    /\ \E out \in SearchOutcomes :
            FirstName("textsearch", "https://maps.googleapis.com/maps/api/place/textsearch/json",
                      [query |-> Join(place), key |-> key], out)
    /\ UNCHANGED <<key, place, geo, pid, geocoded>>

distancematrix ==
    /\ Visit("distancematrix")
    /\ IF Truthy(geo)
       THEN \E out \in MatrixOutcomes :
            LET r == fetch_json(out)
                code == r[1]
                js == r[2]
                rows == Get(js, "rows", <<>>)
                el == rows[1].elements[1]
            IN  /\ Send("distancematrix", "get",
                        "https://maps.googleapis.com/maps/api/distancematrix/json",
                        [params |-> [origins |-> geo[1], destinations |-> geo[1], key |-> key]], out)
                /\ IF rows /= <<>> /\ Get(rows[1], "elements", <<>>) /= <<>> /\ "distance" \in DOMAIN el
                   THEN IF \/ "text" \notin DOMAIN el.distance
                           \/ "duration" \notin DOMAIN el
                           \/ "text" \notin DOMAIN el.duration
                        THEN Raise("KeyError") /\ UNCHANGED results
                        ELSE /\ results' = DictSet(results, "distancematrix",
                                    Row(code, el.distance.text \o ", " \o el.duration.text, js))
                             /\ Advance
                   ELSE Advance /\ UNCHANGED results
                /\ UNCHANGED files
       ELSE Skip
    /\ UNCHANGED <<key, place, geo, pid, geocoded>>

elevation ==
    /\ Visit("elevation")
    /\ IF Truthy(geo)
       THEN \E out \in ElevationOutcomes :
            LET r == fetch_json(out)
                code == r[1]
                js == r[2]
                rs == Get(js, "results", <<>>)
                e == IF "elevation" \in DOMAIN rs[1] THEN ToString(rs[1].elevation) ELSE ""
            IN  /\ Send("elevation", "get", "https://maps.googleapis.com/maps/api/elevation/json",
                        [params |-> [locations |-> geo[1], key |-> key]], out)
                /\ IF rs /= <<>>
                   THEN results' = DictSet(results, "elevation", Row(code, e \o "m", js))
                   ELSE UNCHANGED results
                /\ Advance
                /\ UNCHANGED files
       ELSE Skip
    /\ UNCHANGED <<key, place, geo, pid, geocoded>>

\* int(time.time()) at the moment the timezone probe runs.
Clock == {1700000000}

timezone ==
    /\ Visit("timezone")
    /\ IF Truthy(geo)
       THEN \E out \in TimezoneOutcomes, ts \in Clock :
            LET r == fetch_json(out)
                code == r[1]
                js == r[2]
                tz == Get(js, "timeZoneId", "")
            IN  /\ Send("timezone", "get", "https://maps.googleapis.com/maps/api/timezone/json",
                        [params |-> [location |-> geo[1], timestamp |-> ts, key |-> key]], out)
                /\ IF tz /= ""
                   THEN results' = DictSet(results, "timezone", Row(code, tz, js))
                   ELSE UNCHANGED results
                /\ Advance
                /\ UNCHANGED files
       ELSE Skip
    /\ UNCHANGED <<key, place, geo, pid, geocoded>>

nearbysearch ==
    /\ Visit("nearbysearch")
    /\ IF Truthy(geo)
       THEN \E out \in SearchOutcomes :
            FirstName("nearbysearch", "https://maps.googleapis.com/maps/api/place/nearbysearch/json",
                      [location |-> geo[1], radius |-> 1000, type |-> "restaurant", key |-> key], out)
       ELSE Skip
    /\ UNCHANGED <<key, place, geo, pid, geocoded>>

autocomplete ==
    /\ Visit("autocomplete")
    /\ \E out \in AutocompleteOutcomes :
        LET r == fetch_json(out)
            code == r[1]
            js == r[2]
            prefix == place[1]
            preds == Get(js, "predictions", <<>>)
        IN  /\ Send("autocomplete", "get",
                    "https://maps.googleapis.com/maps/api/place/autocomplete/json",
                    [params |-> [input |-> prefix, types |-> "geocode", key |-> key]], out)
            /\ IF preds /= <<>>
               THEN results' = DictSet(results, "autocomplete",
                        Row(code, Get(preds[1], "description", ""), js))
               ELSE UNCHANGED results
            /\ Advance
    /\ UNCHANGED <<key, place, geo, pid, files, geocoded>>

\* (A variant that records a row even when no point was snapped.)
CountPointsAlways(s, url, params, out) ==
    LET r == fetch_json(out)
        code == r[1]
        js == r[2]
        pts == Len(Get(js, "snappedPoints", <<>>))
    IN  /\ Send(s, "get", url, [params |-> params], out)
        /\ results' = DictSet(results, s, Row(code, ToString(pts) \o " points", js))
        /\ Advance
        /\ UNCHANGED files

\* The shared body of snaptoroads and nearestroads: the number of snapped points.
CountPoints(s, url, params, out) ==
    LET r == fetch_json(out)
        code == r[1]
        js == r[2]
        pts == Len(Get(js, "snappedPoints", <<>>))
    IN  /\ Send(s, "get", url, [params |-> params], out)
        /\ IF pts /= 0
           THEN results' = DictSet(results, s, Row(code, ToString(pts) \o " points", js))
           ELSE UNCHANGED results
        /\ Advance
        /\ UNCHANGED files

snaptoroads ==
    /\ Visit("snaptoroads")
    /\ IF Truthy(geo)
       THEN \E out \in RoadsOutcomes :
            CountPoints("snaptoroads", "https://roads.googleapis.com/v1/snapToRoads",
                        [path |-> geo[1] \o "|" \o geo[1], interpolate |-> TRUE, key |-> key], out)
       ELSE Skip
    /\ UNCHANGED <<key, place, geo, pid, geocoded>>

nearestroads ==
    /\ Visit("nearestroads")
    /\ IF Truthy(geo)
       THEN \E out \in RoadsOutcomes :
            CountPoints("nearestroads", "https://roads.googleapis.com/v1/nearestRoads",
                        [points |-> geo[1], key |-> key], out)
       ELSE Skip
    /\ UNCHANGED <<key, place, geo, pid, geocoded>>

geolocate ==
    /\ Visit("geolocate")
    /\ \E out \in GeolocateOutcomes :
        LET r == fetch_json(out)
            code == r[1]
            js == r[2]
            loc == Get(js, "location", EmptyDict)
            info == IF "lat" \in DOMAIN loc THEN LatLng(loc)
                    ELSE Get(js, "error", Get(js, "status", "UNKNOWN"))
        IN  /\ Send("geolocate", "post", "https://www.googleapis.com/geolocation/v1/geolocate",
                    [params |-> [key |-> key], json |-> [considerIp |-> TRUE]], out)
            /\ IF "lat" \in DOMAIN loc /\ "lng" \notin DOMAIN loc
               THEN Raise("KeyError") /\ UNCHANGED results
               ELSE results' = DictSet(results, "geolocate", Row(code, info, js)) /\ Advance
    /\ UNCHANGED <<key, place, geo, pid, files, geocoded>>

\* return results, once the loop has run out of services.
Return ==
    /\ pc = "running"
    /\ i = Len(SERVICES) + 1
    /\ pc' = "done"
    /\ UNCHANGED <<key, place, i, exc, results, geo, pid, files, requests, visited, last, geocoded>>
    /\ UNCHANGED <<retryvars, maskvars>>

test_key_place ==
    \/ geocode \/ batchgeocode \/ staticmap \/ streetview \/ photoreference
    \/ placedetails \/ textsearch \/ distancematrix \/ elevation \/ timezone
    \/ nearbysearch \/ autocomplete \/ snaptoroads \/ nearestroads \/ geolocate
    \/ Return

-----------------------------------------------------------------------------
(* make_session: the session's adapter retries one logical request under    *)
(* Retry(total=retries, status_forcelist=..., allowed_methods=GET, POST).    *)

retries == 2
status_forcelist == {429, 500, 502, 503, 504}
allowed_methods == {"get", "post"}

\* Defaults of the Retry object that make_session leaves as they are.
respect_retry_after_header == TRUE
RETRY_AFTER_STATUS_CODES == {413, 429, 503}

\* The transport's answer to one attempt: a status code with or without a
\* Retry-After header, or None for a connection-level error (refused, reset,
\* timed out).
Statuses == {200, 403, 413, 429, 500, 502, 503, 504}
Answer(status, has_retry_after) == [status |-> status, retry_after |-> has_retry_after]
TransportAnswers == {None} \cup {Some(Answer(c, ra)) : c \in Statuses, ra \in BOOLEAN}

\* A cap on the attempts the model follows for one logical request.
MaxAttempts == 5

\* Retry.is_retry on a Retry object with total left: the method must be
\* allowed, and the status is either in the force list or, while total is
\* not 0, one of the Retry-After statuses answered with that header.
is_retry(total, method, status_code, has_retry_after) ==
    /\ method \in allowed_methods
    /\ \/ status_code \in status_forcelist
       \/ /\ total /= 0
          /\ respect_retry_after_header
          /\ has_retry_after
          /\ status_code \in RETRY_AFTER_STATUS_CODES

\* (A variant that gives up one attempt late.)
is_exhaustedLate(total) == total < -1

\* Retry.is_exhausted, on the total left after an increment.
is_exhausted(total) == total < 0

\* session.get / session.post: timed_request hands the request to the adapter
\* with a fresh copy of the Retry object.
timed_request ==
    /\ rpc = "idle"
    /\ rmethod' \in allowed_methods
    /\ rtotal' = retries
    /\ rhist' = <<>>
    /\ rpc' = "sending"
    /\ UNCHANGED <<rout, runvars, maskvars>>

\* One attempt on the wire. An error or a response that is_retry accepts
\* increments the Retry object: the attempt is repeated, or, with the budget
\* exhausted, the session raises (ConnectionError, RetryError). Any other
\* response is returned.
send ==
    /\ rpc = "sending"
    /\ Len(rhist) < MaxAttempts
    /\ \E ans \in TransportAnswers :
        /\ rhist' = Append(rhist, ans)
        /\ IF ans = None \/ is_retry(rtotal, rmethod, ans[1].status, ans[1].retry_after)
           THEN IF is_exhausted(rtotal - 1)
                THEN rpc' = "raised" /\ rout' = Raises /\ UNCHANGED rtotal
                ELSE rtotal' = rtotal - 1 /\ UNCHANGED <<rpc, rout>>
           ELSE /\ rpc' = "returned"
                /\ rout' = Response(ans[1].status, EmptyDict)
                /\ UNCHANGED rtotal
    /\ UNCHANGED <<rmethod, runvars, maskvars>>

NextRetry == timed_request \/ send

-----------------------------------------------------------------------------
(* mask_key and the header line of print_table. Strings are sequences of    *)
(* characters; U2026 stands for the one character HORIZONTAL ELLIPSIS.      *)

U2026 == "U+2026"
\* GRAVE ACCENT, which a string literal cannot hold.
U0060 == "U+0060"

\* ord() of the printable ASCII characters, from " " (32) to "~" (126).
Ascii == <<" ", "!", "\"", "#", "$", "%", "&", "'", "(", ")", "*", "+", ",", "-", ".", "/",
           "0", "1", "2", "3", "4", "5", "6", "7", "8", "9", ":", ";", "<", "=", ">", "?",
           "@", "A", "B", "C", "D", "E", "F", "G", "H", "I", "J", "K", "L", "M", "N", "O",
           "P", "Q", "R", "S", "T", "U", "V", "W", "X", "Y", "Z", "[", "\\", "]", "^", "_",
           U0060, "a", "b", "c", "d", "e", "f", "g", "h", "i", "j", "k", "l", "m", "n", "o",
           "p", "q", "r", "s", "t", "u", "v", "w", "x", "y", "z", "{", "|", "}", "~">>
Ord(c) == 31 + (CHOOSE n \in 1..Len(Ascii) : Ascii[n] = c)

\* str.encode(): UTF-8.
RECURSIVE encode(_)
encode(cs) ==
    IF cs = <<>> THEN <<>>
    ELSE (IF Head(cs) = U2026 THEN <<226, 128, 166>> ELSE <<Ord(Head(cs))>>) \o encode(Tail(cs))

\* 32-bit words as two 16-bit halves <<high, low>>.
RECURSIVE And16(_, _, _)
And16(a, b, n) ==
    IF n = 0 THEN 0 ELSE ((a % 2) * (b % 2)) + (2 * And16(a \div 2, b \div 2, n - 1))
Xor16(a, b) == (a + b) - (2 * And16(a, b, 16))
Or16(a, b) == (a + b) - And16(a, b, 16)
WAnd(u, v) == <<And16(u[1], v[1], 16), And16(u[2], v[2], 16)>>
WXor(u, v) == <<Xor16(u[1], v[1]), Xor16(u[2], v[2])>>
WOr(u, v) == <<Or16(u[1], v[1]), Or16(u[2], v[2])>>
WNot(u) == <<65535 - u[1], 65535 - u[2]>>
WAdd(u, v) ==
    LET lo == u[2] + v[2] IN <<(u[1] + v[1] + (lo \div 65536)) % 65536, lo % 65536>>
Rotl(u, k) ==
    LET s == IF k >= 16 THEN <<u[2], u[1]>> ELSE u
        r == k % 16
    IN  IF r = 0 THEN s
        ELSE <<((s[1] * (2^r)) % 65536) + (s[2] \div (2^(16 - r))),
               ((s[2] * (2^r)) % 65536) + (s[1] \div (2^(16 - r)))>>

Zeros(n) == [j \in 1..n |-> 0]

\* SHA-1 padding: 0x80, zeros up to 56 mod 64, the bit length on 8 bytes.
Pad(bytes) ==
    LET n == Len(bytes)
    IN  bytes \o <<128>> \o Zeros((119 - n) % 64)
              \o <<0, 0, 0, 0, 0, ((8 * n) \div 65536) % 256, ((8 * n) \div 256) % 256, (8 * n) % 256>>

WordAt(bs, j) == <<(bs[j] * 256) + bs[j + 1], (bs[j + 2] * 256) + bs[j + 3]>>

\* The message schedule: count more words after the ones in w, each from the
\* words 3, 8, 14 and 16 places before it. (The recursion halves count, and the
\* test on left is never true: both only keep the evaluation shallow.)
RECURSIVE Extend(_, _)
Extend(w, count) ==
    IF count = 0 THEN w
    ELSE IF count = 1
    THEN LET t == Len(w) + 1
         IN  Append(w, Rotl(WXor(WXor(w[t - 3], w[t - 8]), WXor(w[t - 14], w[t - 16])), 1))
    ELSE LET left == Extend(w, count \div 2)
         IN  IF Len(left) < 0 THEN left ELSE Extend(left, count - (count \div 2))
Schedule(w) == Extend(w, 80 - Len(w))

F(t, b, c, d) ==
    IF t < 20 THEN WOr(WAnd(b, c), WAnd(WNot(b), d))
    ELSE IF t < 40 THEN WXor(WXor(b, c), d)
    ELSE IF t < 60 THEN WOr(WOr(WAnd(b, c), WAnd(b, d)), WAnd(c, d))
    ELSE WXor(WXor(b, c), d)

K(t) ==
    IF t < 20 THEN <<23170, 31129>>
    ELSE IF t < 40 THEN <<28377, 60321>>
    ELSE IF t < 60 THEN <<36635, 48348>>
    ELSE <<51810, 49622>>

\* Round t on the working variables h = <<a, b, c, d, e>>.
Round(h, w, t) ==
    LET temp == WAdd(WAdd(WAdd(WAdd(Rotl(h[1], 5), F(t, h[2], h[3], h[4])), h[5]), K(t)), w[t + 1])
    IN  <<temp, h[1], Rotl(h[2], 30), h[3], h[4]>>

\* Rounds lo .. hi-1 on one block. (The recursion halves the range, and the
\* test on left is never true: both only keep the evaluation shallow.)
RECURSIVE Rounds(_, _, _, _)
Rounds(h, w, lo, hi) ==
    IF hi = lo THEN h
    ELSE IF hi = lo + 1 THEN Round(h, w, lo)
    ELSE LET mid == (lo + hi) \div 2
             left == Rounds(h, w, lo, mid)
         IN  IF left[1][1] + left[3][1] < 0 THEN left ELSE Rounds(left, w, mid, hi)

RECURSIVE Blocks(_, _)
Blocks(h, bs) ==
    IF bs = <<>> THEN h
    ELSE LET w == Schedule([j \in 1..16 |-> WordAt(bs, (4 * j) - 3)])
             r == Rounds(h, w, 0, 80)
         IN  Blocks([j \in 1..5 |-> WAdd(h[j], r[j])], SubSeq(bs, 65, Len(bs)))

\* hashlib.sha1(bytes).digest(), as five words.
sha1(bytes) ==
    Blocks(<< <<26437, 8961>>, <<61389, 43913>>, <<39098, 56574>>, <<4146, 21622>>,
              <<50130, 57840>> >>, Pad(bytes))

HexDigits == <<"0", "1", "2", "3", "4", "5", "6", "7", "8", "9", "a", "b", "c", "d", "e", "f">>
Hex4(n) == <<HexDigits[(n \div 4096) + 1], HexDigits[((n \div 256) % 16) + 1],
             HexDigits[((n \div 16) % 16) + 1], HexDigits[(n % 16) + 1]>>

\* hexdigest()[:8]: the first word of the digest.
hexdigest8(bytes) == LET h == sha1(bytes) IN Hex4(h[1][1]) \o Hex4(h[1][2])

\* key[:4] and key[-4:]
Prefix4(k) == SubSeq(k, 1, IF Len(k) < 4 THEN Len(k) ELSE 4)
Suffix4(k) == SubSeq(k, IF Len(k) < 4 THEN 1 ELSE Len(k) - 3, Len(k))

\* f"{key[:4]}...{key[-4:]} ({h})", the dots being the one character U+2026
mask_key(k) ==
    LET h == hexdigest8(encode(k))
    IN  Prefix4(k) \o <<U2026>> \o Suffix4(k) \o <<" ", "(">> \o h \o <<")">>

\* The keys and places typed at the prompts (stripped, non-empty).
MaxKeyLen == 5
KeyAlphabet == {"A", "z"}
RECURSIVE StringsUpTo(_)
StringsUpTo(n) ==
    IF n = 0 THEN {<<>>}
    ELSE LET shorter == StringsUpTo(n - 1)
         IN  shorter \cup {Append(w, c) : w \in shorter, c \in KeyAlphabet}
TypedKeys ==
    (StringsUpTo(MaxKeyLen) \ {<<>>})
    \cup { <<"A", "B", "C", "D", "1", "2", "3", "4", "W", "X", "Y", "Z">>,
           <<"A", "B", "C", "D", "1", "2", "3", "4", "W">>,
           <<"A", "I", "z", "a", "F", "A", "K", "E", "K", "E", "Y", "1", "2", "3", "4", "5",
             "6", "7", "8", "9", "0">> }
TypedPlaces == {<<"P", "a", "r", "i", "s">>, <<"4", "8", ",", "2">>}

\* main: the two prompts.
main ==
    /\ mkey = None
    /\ \E k \in TypedKeys, p \in TypedPlaces : mkey' = Some(k) /\ mplace' = Some(p)
    /\ UNCHANGED <<masked, header, runvars, retryvars>>

\* print_table: the header line, "\nKey <masked>  Place \"<place>\"".
print_table ==
    /\ mkey /= None
    /\ header = None
    /\ masked' = Some(mask_key(mkey[1]))
    /\ header' = Some(<<"\n", "K", "e", "y", " ">> \o mask_key(mkey[1])
                      \o <<" ", " ", "P", "l", "a", "c", "e", " ", "\"">> \o mplace[1] \o <<"\"">>)
    /\ UNCHANGED <<mkey, mplace, runvars, retryvars>>

NextMask == main \/ print_table

-----------------------------------------------------------------------------
(* The specifications *)

\* (A variant that starts from default coordinates and place identifier.)
InitWithDefaults ==
    /\ key \in Keys_
    /\ place \in Places
    /\ i = 1
    /\ pc = "running"
    /\ exc = ""
    /\ results = <<>>
    /\ geo = Some("0,0")
    /\ pid = Some("unknown")
    /\ files = {}
    /\ requests = <<>>
    /\ visited = <<>>
    /\ last = [svc |-> "", out |-> Raises]
    /\ geocoded = None
    /\ rmethod = "get"
    /\ rtotal = retries
    /\ rhist = <<>>
    /\ rpc = "idle"
    /\ rout = Raises
    /\ mkey = None
    /\ mplace = None
    /\ masked = None
    /\ header = None

\* A run of test_key_place: results, geo, pid = {}, None, None.
Init ==
    /\ key \in Keys_
    /\ place \in Places
    /\ i = 1
    /\ pc = "running"
    /\ exc = ""
    /\ results = <<>>
    /\ geo = None
    /\ pid = None
    /\ files = {}
    /\ requests = <<>>
    /\ visited = <<>>
    /\ last = [svc |-> "", out |-> Raises]
    /\ geocoded = None
    /\ rmethod = "get"
    /\ rtotal = retries
    /\ rhist = <<>>
    /\ rpc = "idle"
    /\ rout = Raises
    /\ mkey = None
    /\ mplace = None
    /\ masked = None
    /\ header = None

Next == test_key_place
Spec == Init /\ [][Next]_vars

\* One logical request through the session of make_session.
InitRetry ==
    /\ key = "AIzaFAKEKEY1234567890"
    /\ place = <<"Paris">>
    /\ i = 1
    /\ pc = "running"
    /\ exc = ""
    /\ results = <<>>
    /\ geo = None
    /\ pid = None
    /\ files = {}
    /\ requests = <<>>
    /\ visited = <<>>
    /\ last = [svc |-> "", out |-> Raises]
    /\ geocoded = None
    /\ rmethod = "get"
    /\ rtotal = retries
    /\ rhist = <<>>
    /\ rpc = "idle"
    /\ rout = Raises
    /\ mkey = None
    /\ mplace = None
    /\ masked = None
    /\ header = None

SpecRetry == InitRetry /\ [][NextRetry]_vars

\* The prompts of main and the header line of the report.
InitMask ==
    /\ key = "AIzaFAKEKEY1234567890"
    /\ place = <<"Paris">>
    /\ i = 1
    /\ pc = "running"
    /\ exc = ""
    /\ results = <<>>
    /\ geo = None
    /\ pid = None
    /\ files = {}
    /\ requests = <<>>
    /\ visited = <<>>
    /\ last = [svc |-> "", out |-> Raises]
    /\ geocoded = None
    /\ rmethod = "get"
    /\ rtotal = retries
    /\ rhist = <<>>
    /\ rpc = "idle"
    /\ rout = Raises
    /\ mkey = None
    /\ mplace = None
    /\ masked = None
    /\ header = None

SpecMask == InitMask /\ [][NextMask]_vars

-----------------------------------------------------------------------------
(* Vocabulary of the properties *)

\* The probes that read the derived coordinates or place identifier.
Dependent == {"staticmap", "streetview", "photoreference", "placedetails", "distancematrix",
              "elevation", "timezone", "nearbysearch", "snaptoroads", "nearestroads"}
BinaryProbes == {"staticmap", "streetview"}
AlwaysRecorded == {"batchgeocode", "geolocate"}
DeclaredOrder ==
    <<"geocode", "batchgeocode", "staticmap", "streetview", "photoreference",
      "placedetails", "textsearch", "distancematrix", "elevation", "timezone",
      "nearbysearch", "autocomplete", "snaptoroads", "nearestroads", "geolocate">>
Declared == {DeclaredOrder[n] : n \in 1..Len(DeclaredOrder)}
Position(s) == CHOOSE n \in 1..Len(DeclaredOrder) : DeclaredOrder[n] = s

RequestsOf(s) == {n \in 1..Len(requests) : requests[n].svc = s}
WasVisited(s) == \E n \in 1..Len(visited) : visited[n] = s
Skipped(s) == WasVisited(s) /\ RequestsOf(s) = {}

\* The request failed at transport level: the session raised, or the body of
\* a JSON probe's response could not be parsed.
TransportFailed(out) == out.raised \/ ("json" \in DOMAIN out /\ out.json = None)

\* The success marker each JSON probe looks for in a parsed body.
JsonMarker(s, js) ==
    CASE s \in {"geocode", "placedetails"} -> "status" \in DOMAIN js /\ js.status = "OK"
      [] s = "photoreference" ->
            /\ "candidates" \in DOMAIN js
            /\ js.candidates /= <<>>
            /\ "photos" \in DOMAIN js.candidates[1]
      [] s \in {"textsearch", "nearbysearch", "elevation"} ->
            "results" \in DOMAIN js /\ js.results /= <<>>
      [] s = "distancematrix" ->
            /\ "rows" \in DOMAIN js
            /\ js.rows /= <<>>
            /\ "elements" \in DOMAIN js.rows[1]
            /\ js.rows[1].elements /= <<>>
            /\ "distance" \in DOMAIN js.rows[1].elements[1]
      [] s = "timezone" -> "timeZoneId" \in DOMAIN js /\ js.timeZoneId /= ""
      [] s = "autocomplete" -> "predictions" \in DOMAIN js /\ js.predictions /= <<>>
      [] s \in {"snaptoroads", "nearestroads"} ->
            "snappedPoints" \in DOMAIN js /\ js.snappedPoints /= <<>>
      [] s = "geolocate" -> "location" \in DOMAIN js /\ "lat" \in DOMAIN js.location
      [] OTHER -> FALSE

\* The session's answer out carries the success marker of probe s.
SuccessMarker(s, out) ==
    /\ ~TransportFailed(out)
    /\ IF s \in BinaryProbes \cup {"batchgeocode"} THEN out.status_code = 200
       ELSE JsonMarker(s, out.json[1])

\* The most recent request was probe s's and it did not succeed.
FailedLast(s) == last.svc = s /\ ~SuccessMarker(s, last.out)

\* The geocode probe ran and its result was absent or had a status other than "OK".
GeocodeNotOK ==
    /\ geocoded /= None
    /\ ~("status" \in DOMAIN geocoded[1][2] /\ geocoded[1][2].status = "OK")

-----------------------------------------------------------------------------
\* C1: when the geocode probe's response was absent or had a status other
\* than "OK", no probe that depends on the derived coordinates or place
\* identifier issues a request or adds an entry to results, whatever the
\* other probes were answered.
C1_DependentProbesSkipped ==
    GeocodeNotOK => \A s \in Dependent : RequestsOf(s) = {} /\ ~HasKey(results, s)

\* A finished run whose geocode failed while the independent probes succeeded.
C1_Witness ==
    /\ pc = "done"
    /\ GeocodeNotOK
    /\ \A s \in Dependent : Skipped(s)
    /\ HasKey(results, "textsearch")
    /\ HasKey(results, "autocomplete")

\* C2 as stated: in the returned mapping, a probe that was skipped or failed
\* has no entry, for every one of the 15 endpoints.
C2_EveryFailureOmitted ==
    pc = "done" => \A s \in Declared : (Skipped(s) \/ FailedLast(s)) => ~HasKey(results, s)

\* C2, amended: for the 13 endpoints other than batchgeocode and geolocate, a
\* probe that was skipped, failed at transport level or got a response without
\* its success marker leaves no entry, so every entry present carries the
\* marker; batchgeocode and geolocate record an entry for whatever they
\* received, a transport failure included.
C2_FailuresOmittedButBatchAndGeolocate ==
    /\ \A s \in Declared \ AlwaysRecorded :
        /\ (Skipped(s) \/ FailedLast(s)) => ~HasKey(results, s)
        /\ HasKey(results, s) =>
              /\ Entry(results, s).http /= None
              /\ IF s \in BinaryProbes THEN Entry(results, s).http = Some(200)
                 ELSE JsonMarker(s, Entry(results, s).raw)
    /\ \A s \in AlwaysRecorded :
        (WasVisited(s) /\ ~(pc = "crashed" /\ last.svc = s)) => HasKey(results, s)

\* A returned mapping with skipped probes, a failed textsearch and the rows of
\* a batchgeocode and a geolocate that both failed at transport level.
C2_Witness ==
    /\ pc = "done"
    /\ Skipped("staticmap")
    /\ ~HasKey(results, "textsearch")
    /\ HasKey(results, "batchgeocode") /\ Entry(results, "batchgeocode").http = None
    /\ FailedLast("geolocate") /\ HasKey(results, "geolocate")

\* A binary probe's file is there only after a 200 response to that probe.
ImageFileOnlyOn200(s, dest) ==
    /\ dest \in files =>
          \/ HasKey(results, s) /\ Entry(results, s).http = Some(200)
          \/ pc = "crashed" /\ last.svc = s /\ ~last.out.raised /\ last.out.status_code = 200
    /\ (last.svc = s /\ (last.out.raised \/ last.out.status_code /= 200)) => dest \notin files

\* C3 as stated: each of the three files exists only if its probe succeeded.
C3_FilesOnlyOnSuccess ==
    /\ ImageFileOnlyOn200("staticmap", "staticmap.png")
    /\ ImageFileOnlyOn200("streetview", "streetview.jpg")
    /\ "batch.csv" \in files =>
          HasKey(results, "batchgeocode") /\ Entry(results, "batchgeocode").http = Some(200)

\* C3, amended: staticmap.png and streetview.jpg exist only after a 200
\* response to their probe, and a binary probe answered by a non-200 status or
\* a transport failure writes no file; batch.csv is written before the
\* batchgeocode request is sent, so it exists exactly when that probe has
\* run, whatever its response.
C3_ImagesOnlyOn200BatchAlways ==
    /\ ImageFileOnlyOn200("staticmap", "staticmap.png")
    /\ ImageFileOnlyOn200("streetview", "streetview.jpg")
    /\ "batch.csv" \in files <=> WasVisited("batchgeocode")
    /\ files \subseteq {"batch.csv", "staticmap.png", "streetview.jpg"}

\* staticmap got 200 and wrote its file, streetview got 403 and wrote none,
\* and batch.csv is there although batchgeocode failed at transport level.
C3_Witness ==
    /\ "staticmap.png" \in files
    /\ last.svc = "streetview" /\ ~last.out.raised /\ last.out.status_code = 403
    /\ "streetview.jpg" \notin files
    /\ "batch.csv" \in files
    /\ Entry(results, "batchgeocode").http = None

\* C4: a JSON response received without transport error never makes its
\* probe raise, whichever expected fields it lacks: the run goes on.
C4_SoftFailureNeverRaises ==
    ~(pc = "crashed" /\ last.svc \in Declared \ BinaryProbes /\ ~TransportFailed(last.out))

\* C6 as stated: after a geocode "OK", each of the seven probes the claim
\* names has sent a request whose inputs carry the derived "lat,lng" string.
CoordinateInputs(s) ==
    CASE s = "staticmap" -> {"center"}
      [] s = "distancematrix" -> {"origins", "destinations"}
      [] s = "elevation" -> {"locations"}
      [] s = "placedetails" -> {"place_id"}
      [] OTHER -> {"location"}
CarriesCoordinates(s) ==
    \E n \in RequestsOf(s) : \A f \in CoordinateInputs(s) : requests[n].kw.params[f] = geo[1]
C6_AllSevenCarryCoordinates ==
    (pc = "done" /\ geo /= None) =>
        \A s \in {"staticmap", "streetview", "placedetails", "distancematrix", "elevation",
                  "timezone", "nearbysearch"} : CarriesCoordinates(s)

\* C6, amended: after a geocode "OK" the derived string is "<lat>,<lng>" of
\* the first result, and static map, street view, distance matrix, elevation,
\* time zone and nearby search each send, once reached, exactly one request
\* carrying that exact string; place details is sent the derived place_id
\* instead, and no request at all when the place_id is empty.
C6_CoordinatesReachSixPlaceIdReachesDetails ==
    geo /= None =>
        LET hit == geocoded[1][2].results[1]
            loc == hit.geometry.location
        IN  /\ geo = Some(ToString(loc.lat) \o "," \o ToString(loc.lng))
            /\ \A s \in {"staticmap", "streetview", "distancematrix", "elevation",
                         "timezone", "nearbysearch"} :
                  WasVisited(s) => Cardinality(RequestsOf(s)) = 1 /\ CarriesCoordinates(s)
            /\ WasVisited("placedetails") =>
                  IF hit.place_id = "" THEN RequestsOf("placedetails") = {}
                  ELSE /\ Cardinality(RequestsOf("placedetails")) = 1
                       /\ \A n \in RequestsOf("placedetails") :
                             /\ requests[n].kw.params.place_id = hit.place_id
                             /\ DOMAIN requests[n].kw.params = {"place_id", "key"}

\* A finished run after a geocode "OK" with a place_id: all seven were sent.
C6_Witness ==
    /\ pc = "done"
    /\ geo = Some("48,2")
    /\ \A s \in {"staticmap", "streetview", "placedetails", "distancematrix", "elevation",
                 "timezone", "nearbysearch"} : RequestsOf(s) /= {}

\* C8: a transport failure is never propagated. The probe it hits completes
\* and the loop moves on; where the failure is recorded (batchgeocode,
\* geolocate) it reads status None with an empty body; and a run that
\* returns has visited all 15 probes.
C8_TransportFailureContained ==
    /\ (last.svc /= "" /\ TransportFailed(last.out)) =>
          /\ pc /= "crashed"
          /\ i > Position(last.svc)
          /\ last.svc \in AlwaysRecorded =>
                /\ Entry(results, last.svc).http = None
                /\ Entry(results, last.svc).raw = EmptyDict
          /\ last.svc \notin AlwaysRecorded => ~HasKey(results, last.svc)
    /\ pc = "done" => visited = DeclaredOrder

\* Every request of the run failed at transport level and the run returned
\* the two rows that are always recorded.
C8_Witness ==
    /\ pc = "done"
    /\ TransportFailed(last.out)
    /\ Keys(results) = <<"batchgeocode", "geolocate">>
    /\ \A n \in 1..Len(results) : results[n].http = None /\ results[n].raw = EmptyDict
    /\ Len(requests) = 5

StrictlyIncreasing(names) ==
    /\ \A n \in 1..Len(names) : names[n] \in Declared
    /\ \A m, n \in 1..Len(names) : m < n => Position(names[m]) < Position(names[n])

\* C9: the probes are visited one after another in the declared order, each
\* at most once and each with at most one logical request, so results holds
\* at most one entry per declared name, in the declared order.
C9_DeclaredOrderOnceEach ==
    /\ Len(visited) <= Len(DeclaredOrder)
    /\ visited = SubSeq(DeclaredOrder, 1, Len(visited))
    /\ pc = "running" => Len(visited) = i - 1
    /\ \A s \in Declared : Cardinality(RequestsOf(s)) <= 1
    /\ StrictlyIncreasing([n \in 1..Len(requests) |-> requests[n].svc])
    /\ \A n \in 1..Len(requests) : WasVisited(requests[n].svc)
    /\ StrictlyIncreasing(Keys(results))
    /\ \A n \in 1..Len(results) : RequestsOf(results[n].svc) /= {}

\* A returned mapping that holds all 15 rows.
C9_Witness == pc = "done" /\ Keys(results) = DeclaredOrder /\ Len(requests) = 15

\* C10: the coordinates are populated if and only if results holds a
\* "geocode" entry, at every point of the run.
C10_CoordinatesIffGeocodeEntry == (geo /= None) <=> HasKey(results, "geocode")

-----------------------------------------------------------------------------
(* Properties of the session's retries *)

\* The statuses answered to the attempts so far, 0 for a connection error.
Codes == [n \in 1..Len(rhist) |-> IF rhist[n] = None THEN 0 ELSE rhist[n][1].status]

\* Answer n was followed by another attempt.
Repeated(n) == n < Len(rhist) \/ rpc = "sending"

\* What both readings of C7 share: at most 3 attempts; 503, 503, 200 gives
\* the probe a 200 result; 503 three times gives it a network failure
\* (None, {}) or 503, never an uncaught exception.
ThreeAttemptsAndScenarios ==
    /\ Len(rhist) <= 3
    /\ rpc \in {"idle", "sending", "returned", "raised"}
    /\ Codes = <<503, 503>> => rpc = "sending"
    /\ Codes = <<503, 503, 200>> =>
          rpc = "returned" /\ fetch_json(rout) = <<Some(200), EmptyDict>>
    /\ Codes = <<503, 503, 503>> =>
          /\ rpc \in {"returned", "raised"}
          /\ fetch_json(rout)[1] \in {None, Some(503)}
          /\ fetch_json(rout)[1] = None => fetch_json(rout)[2] = EmptyDict

\* C7 as stated: a logical request is attempted at most 3 times, an attempt
\* being repeated only after a connection error or a 429/500/502/503/504,
\* with the two 503 scenarios.
C7_RetriesOnlyOnForceList ==
    /\ ThreeAttemptsAndScenarios
    /\ \A n \in 1..Len(rhist) :
          Repeated(n) => rhist[n] = None \/ rhist[n][1].status \in {429, 500, 502, 503, 504}

\* C7, amended: a logical request is attempted at most 3 times, with the two
\* 503 scenarios; an attempt is repeated only after a connection error, a
\* 429/500/502/503/504, or a 413 that carries a Retry-After header while the
\* budget is not used up, and a 413 answered to the third attempt, or without
\* the header, is returned to the probe as status 413.
C7_AtMostThreeAttempts ==
    /\ ThreeAttemptsAndScenarios
    /\ \A n \in 1..Len(rhist) :
          /\ Repeated(n) =>
                \/ rhist[n] = None
                \/ rhist[n][1].status \in {429, 500, 502, 503, 504}
                \/ rhist[n][1] = Answer(413, TRUE) /\ n < 3
          /\ (rhist[n] /= None /\ rhist[n][1].status = 413
                /\ (n = 3 \/ ~rhist[n][1].retry_after)) =>
                /\ n = Len(rhist)
                /\ rpc = "returned"
                /\ fetch_json(rout) = <<Some(413), EmptyDict>>

\* A 413 with Retry-After was sent again, then two 503 answers used up the
\* budget and the session raised.
C7_Witness ==
    /\ rhist = <<Some(Answer(413, TRUE)), Some(Answer(503, FALSE)), Some(Answer(503, FALSE))>>
    /\ rpc = "raised"

-----------------------------------------------------------------------------
(* Properties of the header line *)

Contains(hay, needle) ==
    \E n \in 0..(Len(hay) - Len(needle)) : SubSeq(hay, n + 1, n + Len(needle)) = needle

\* C5: for every non-empty key the masked form shows the first 4 and last 4
\* characters and a hash fragment, never holds the full key as a substring,
\* and never shows enough of the key to rebuild it; nor does the header line.
C5_MaskNeverShowsFullKey ==
    header /= None =>
        /\ Len(masked[1]) = Len(Prefix4(mkey[1])) + Len(Suffix4(mkey[1])) + 12
        /\ ~Contains(masked[1], mkey[1])
        /\ ~Contains(header[1], mkey[1])
        /\ Len(Prefix4(mkey[1])) + Len(Suffix4(mkey[1])) < Len(mkey[1])

=============================================================================
